---- MODULE Spec2Model ----
(***************************************************************************)
(* Model of the FTS loader (src/main.py): the cell cleaner clean_value,    *)
(* the row normalizer and batcher process_excel_data, the batch loader     *)
(* insert_data_batch / insert_data, and the orchestrator main.             *)
(*                                                                         *)
(* Two specifications share the module:                                    *)
(*   Spec     the orchestrator main() as a sequential state machine;       *)
(*   FnSpec   clean_value and process_excel_data applied to inputs drawn   *)
(*            from bounded sets.                                           *)
(* FairSpec is Spec with weak fairness of Next (main is one sequential     *)
(* thread that keeps running until it returns).                            *)
(***************************************************************************)
EXTENDS Integers, Sequences, FiniteSets, TLC

VARIABLES
    pc,          \* position of main()
    env_ok,      \* DB_NAME, DB_USER and DB_PASSWORD are all set
    batch_size,  \* local batch_size of process_excel_data
    page_size,   \* page_size argument of execute_values
    conn,        \* local conn of main: "unbound", "open" or "closed"
    txn,         \* transaction status of the session
    pending,     \* rows executed in the open transaction, not committed
    table,       \* committed rows of fts_data, per source year
    year,        \* loop variable of main
    response,    \* result of requests.get for the current year
    tmpfiles,    \* files written into temp_dir, per year
    gen,         \* the generator process_excel_data(file_path, year)
    wb,          \* per year: state of the workbook opened for it
    batch,       \* insert_data: the (db_columns, rows) taken from the generator
    attempted,   \* history: the years whose loop body was entered, in order
    hist,        \* history, per year: what its iteration did and met
    run,         \* history: run of create_table and conn.close, how start-up went
    fn           \* FnSpec: the last call and its result

vars == <<pc, env_ok, batch_size, page_size, conn, txn, pending, table, year,
          response, tmpfiles, gen, wb, batch, attempted, hist, run, fn>>

----------------------------------------------------------------------------
(* Bounds of the model.                                                    *)

\* datetime.now().year is FirstYear + MaxYears - 1
MaxYears == 2
\* batch_size, 5000 in the code (line 196), scaled down: main runs with
\* MaxBatchSize, FnSpec with every value of 1..MaxBatchSize
MaxBatchSize == 2
\* page_size, 1000 in the code (line 240), scaled down likewise; as in the
\* code a full batch takes more than one page
MaxPageSize == 1
\* FnSpec: number of data rows of a generated sheet
MaxRows == 5

----------------------------------------------------------------------------
(* Python values.  Every value is a record of the same shape:              *)
(*   t  the type name, s the characters of a str, n and e the number       *)
(*   (an int is n, a float is n / 10^e, a bool is n in {0,1}, a datetime   *)
(*   is the date n = yyyymmdd at e seconds after midnight).                *)

PyNone == [t |-> "None", s |-> <<>>, n |-> 0, e |-> 0]
PyStr(chars) == [t |-> "str", s |-> chars, n |-> 0, e |-> 0]
PyInt(k) == [t |-> "int", s |-> <<>>, n |-> k, e |-> 0]
PyFloat(m, d) == [t |-> "float", s |-> <<>>, n |-> m, e |-> d]
\* float("inf"), float("-inf") and float("nan")
PyInf(neg) == [t |-> "float", s |-> <<"inf">>, n |-> IF neg THEN 0 - 1 ELSE 1, e |-> 0]
PyNan == [t |-> "float", s |-> <<"nan">>, n |-> 1, e |-> 0]
PyBool(b) == [t |-> "bool", s |-> <<>>, n |-> IF b THEN 1 ELSE 0, e |-> 0]
PyDatetime(y, m, d, secs) ==
    [t |-> "datetime", s |-> <<>>, n |-> (y * 100 + m) * 100 + d, e |-> secs]

\* Python truthiness of a value (bool(value))
Truthy(v) ==
    CASE v.t = "None" -> FALSE
      [] v.t = "str" -> v.s # <<>>
      [] v.t \in {"int", "float", "bool"} -> v.n # 0 \/ v.s # <<>>
      [] OTHER -> TRUE

\* value == "<chars>" for a str literal
EqStr(v, chars) == v.t = "str" /\ v.s = chars

DigitChars == <<"0", "1", "2", "3", "4", "5", "6", "7", "8", "9">>

IsDigit(c) == \E i \in 1..10 : DigitChars[i] = c

\* the decimal digits of every script, by value 0..9 (float() of line 91
\* reads each as its ASCII digit; the table is that of Python 3.11)
FloatDigits ==
    <<{"0", "U+0660", "U+06F0", "U+07C0", "U+0966", "U+09E6", "U+0A66",
       "U+0AE6", "U+0B66", "U+0BE6", "U+0C66", "U+0CE6", "U+0D66", "U+0DE6",
       "U+0E50", "U+0ED0", "U+0F20", "U+1040", "U+1090", "U+17E0", "U+1810",
       "U+1946", "U+19D0", "U+1A80", "U+1A90", "U+1B50", "U+1BB0", "U+1C40",
       "U+1C50", "U+A620", "U+A8D0", "U+A900", "U+A9D0", "U+A9F0", "U+AA50",
       "U+ABF0", "U+FF10", "U+104A0", "U+10D30", "U+11066", "U+110F0",
       "U+11136", "U+111D0", "U+112F0", "U+11450", "U+114D0", "U+11650",
       "U+116C0", "U+11730", "U+118E0", "U+11950", "U+11C50", "U+11D50",
       "U+11DA0", "U+16A60", "U+16AC0", "U+16B50", "U+1D7CE", "U+1D7D8",
       "U+1D7E2", "U+1D7EC", "U+1D7F6", "U+1E140", "U+1E2F0", "U+1E950",
       "U+1FBF0"},
      {"1", "U+0661", "U+06F1", "U+07C1", "U+0967", "U+09E7", "U+0A67",
       "U+0AE7", "U+0B67", "U+0BE7", "U+0C67", "U+0CE7", "U+0D67", "U+0DE7",
       "U+0E51", "U+0ED1", "U+0F21", "U+1041", "U+1091", "U+17E1", "U+1811",
       "U+1947", "U+19D1", "U+1A81", "U+1A91", "U+1B51", "U+1BB1", "U+1C41",
       "U+1C51", "U+A621", "U+A8D1", "U+A901", "U+A9D1", "U+A9F1", "U+AA51",
       "U+ABF1", "U+FF11", "U+104A1", "U+10D31", "U+11067", "U+110F1",
       "U+11137", "U+111D1", "U+112F1", "U+11451", "U+114D1", "U+11651",
       "U+116C1", "U+11731", "U+118E1", "U+11951", "U+11C51", "U+11D51",
       "U+11DA1", "U+16A61", "U+16AC1", "U+16B51", "U+1D7CF", "U+1D7D9",
       "U+1D7E3", "U+1D7ED", "U+1D7F7", "U+1E141", "U+1E2F1", "U+1E951",
       "U+1FBF1"},
      {"2", "U+0662", "U+06F2", "U+07C2", "U+0968", "U+09E8", "U+0A68",
       "U+0AE8", "U+0B68", "U+0BE8", "U+0C68", "U+0CE8", "U+0D68", "U+0DE8",
       "U+0E52", "U+0ED2", "U+0F22", "U+1042", "U+1092", "U+17E2", "U+1812",
       "U+1948", "U+19D2", "U+1A82", "U+1A92", "U+1B52", "U+1BB2", "U+1C42",
       "U+1C52", "U+A622", "U+A8D2", "U+A902", "U+A9D2", "U+A9F2", "U+AA52",
       "U+ABF2", "U+FF12", "U+104A2", "U+10D32", "U+11068", "U+110F2",
       "U+11138", "U+111D2", "U+112F2", "U+11452", "U+114D2", "U+11652",
       "U+116C2", "U+11732", "U+118E2", "U+11952", "U+11C52", "U+11D52",
       "U+11DA2", "U+16A62", "U+16AC2", "U+16B52", "U+1D7D0", "U+1D7DA",
       "U+1D7E4", "U+1D7EE", "U+1D7F8", "U+1E142", "U+1E2F2", "U+1E952",
       "U+1FBF2"},
      {"3", "U+0663", "U+06F3", "U+07C3", "U+0969", "U+09E9", "U+0A69",
       "U+0AE9", "U+0B69", "U+0BE9", "U+0C69", "U+0CE9", "U+0D69", "U+0DE9",
       "U+0E53", "U+0ED3", "U+0F23", "U+1043", "U+1093", "U+17E3", "U+1813",
       "U+1949", "U+19D3", "U+1A83", "U+1A93", "U+1B53", "U+1BB3", "U+1C43",
       "U+1C53", "U+A623", "U+A8D3", "U+A903", "U+A9D3", "U+A9F3", "U+AA53",
       "U+ABF3", "U+FF13", "U+104A3", "U+10D33", "U+11069", "U+110F3",
       "U+11139", "U+111D3", "U+112F3", "U+11453", "U+114D3", "U+11653",
       "U+116C3", "U+11733", "U+118E3", "U+11953", "U+11C53", "U+11D53",
       "U+11DA3", "U+16A63", "U+16AC3", "U+16B53", "U+1D7D1", "U+1D7DB",
       "U+1D7E5", "U+1D7EF", "U+1D7F9", "U+1E143", "U+1E2F3", "U+1E953",
       "U+1FBF3"},
      {"4", "U+0664", "U+06F4", "U+07C4", "U+096A", "U+09EA", "U+0A6A",
       "U+0AEA", "U+0B6A", "U+0BEA", "U+0C6A", "U+0CEA", "U+0D6A", "U+0DEA",
       "U+0E54", "U+0ED4", "U+0F24", "U+1044", "U+1094", "U+17E4", "U+1814",
       "U+194A", "U+19D4", "U+1A84", "U+1A94", "U+1B54", "U+1BB4", "U+1C44",
       "U+1C54", "U+A624", "U+A8D4", "U+A904", "U+A9D4", "U+A9F4", "U+AA54",
       "U+ABF4", "U+FF14", "U+104A4", "U+10D34", "U+1106A", "U+110F4",
       "U+1113A", "U+111D4", "U+112F4", "U+11454", "U+114D4", "U+11654",
       "U+116C4", "U+11734", "U+118E4", "U+11954", "U+11C54", "U+11D54",
       "U+11DA4", "U+16A64", "U+16AC4", "U+16B54", "U+1D7D2", "U+1D7DC",
       "U+1D7E6", "U+1D7F0", "U+1D7FA", "U+1E144", "U+1E2F4", "U+1E954",
       "U+1FBF4"},
      {"5", "U+0665", "U+06F5", "U+07C5", "U+096B", "U+09EB", "U+0A6B",
       "U+0AEB", "U+0B6B", "U+0BEB", "U+0C6B", "U+0CEB", "U+0D6B", "U+0DEB",
       "U+0E55", "U+0ED5", "U+0F25", "U+1045", "U+1095", "U+17E5", "U+1815",
       "U+194B", "U+19D5", "U+1A85", "U+1A95", "U+1B55", "U+1BB5", "U+1C45",
       "U+1C55", "U+A625", "U+A8D5", "U+A905", "U+A9D5", "U+A9F5", "U+AA55",
       "U+ABF5", "U+FF15", "U+104A5", "U+10D35", "U+1106B", "U+110F5",
       "U+1113B", "U+111D5", "U+112F5", "U+11455", "U+114D5", "U+11655",
       "U+116C5", "U+11735", "U+118E5", "U+11955", "U+11C55", "U+11D55",
       "U+11DA5", "U+16A65", "U+16AC5", "U+16B55", "U+1D7D3", "U+1D7DD",
       "U+1D7E7", "U+1D7F1", "U+1D7FB", "U+1E145", "U+1E2F5", "U+1E955",
       "U+1FBF5"},
      {"6", "U+0666", "U+06F6", "U+07C6", "U+096C", "U+09EC", "U+0A6C",
       "U+0AEC", "U+0B6C", "U+0BEC", "U+0C6C", "U+0CEC", "U+0D6C", "U+0DEC",
       "U+0E56", "U+0ED6", "U+0F26", "U+1046", "U+1096", "U+17E6", "U+1816",
       "U+194C", "U+19D6", "U+1A86", "U+1A96", "U+1B56", "U+1BB6", "U+1C46",
       "U+1C56", "U+A626", "U+A8D6", "U+A906", "U+A9D6", "U+A9F6", "U+AA56",
       "U+ABF6", "U+FF16", "U+104A6", "U+10D36", "U+1106C", "U+110F6",
       "U+1113C", "U+111D6", "U+112F6", "U+11456", "U+114D6", "U+11656",
       "U+116C6", "U+11736", "U+118E6", "U+11956", "U+11C56", "U+11D56",
       "U+11DA6", "U+16A66", "U+16AC6", "U+16B56", "U+1D7D4", "U+1D7DE",
       "U+1D7E8", "U+1D7F2", "U+1D7FC", "U+1E146", "U+1E2F6", "U+1E956",
       "U+1FBF6"},
      {"7", "U+0667", "U+06F7", "U+07C7", "U+096D", "U+09ED", "U+0A6D",
       "U+0AED", "U+0B6D", "U+0BED", "U+0C6D", "U+0CED", "U+0D6D", "U+0DED",
       "U+0E57", "U+0ED7", "U+0F27", "U+1047", "U+1097", "U+17E7", "U+1817",
       "U+194D", "U+19D7", "U+1A87", "U+1A97", "U+1B57", "U+1BB7", "U+1C47",
       "U+1C57", "U+A627", "U+A8D7", "U+A907", "U+A9D7", "U+A9F7", "U+AA57",
       "U+ABF7", "U+FF17", "U+104A7", "U+10D37", "U+1106D", "U+110F7",
       "U+1113D", "U+111D7", "U+112F7", "U+11457", "U+114D7", "U+11657",
       "U+116C7", "U+11737", "U+118E7", "U+11957", "U+11C57", "U+11D57",
       "U+11DA7", "U+16A67", "U+16AC7", "U+16B57", "U+1D7D5", "U+1D7DF",
       "U+1D7E9", "U+1D7F3", "U+1D7FD", "U+1E147", "U+1E2F7", "U+1E957",
       "U+1FBF7"},
      {"8", "U+0668", "U+06F8", "U+07C8", "U+096E", "U+09EE", "U+0A6E",
       "U+0AEE", "U+0B6E", "U+0BEE", "U+0C6E", "U+0CEE", "U+0D6E", "U+0DEE",
       "U+0E58", "U+0ED8", "U+0F28", "U+1048", "U+1098", "U+17E8", "U+1818",
       "U+194E", "U+19D8", "U+1A88", "U+1A98", "U+1B58", "U+1BB8", "U+1C48",
       "U+1C58", "U+A628", "U+A8D8", "U+A908", "U+A9D8", "U+A9F8", "U+AA58",
       "U+ABF8", "U+FF18", "U+104A8", "U+10D38", "U+1106E", "U+110F8",
       "U+1113E", "U+111D8", "U+112F8", "U+11458", "U+114D8", "U+11658",
       "U+116C8", "U+11738", "U+118E8", "U+11958", "U+11C58", "U+11D58",
       "U+11DA8", "U+16A68", "U+16AC8", "U+16B58", "U+1D7D6", "U+1D7E0",
       "U+1D7EA", "U+1D7F4", "U+1D7FE", "U+1E148", "U+1E2F8", "U+1E958",
       "U+1FBF8"},
      {"9", "U+0669", "U+06F9", "U+07C9", "U+096F", "U+09EF", "U+0A6F",
       "U+0AEF", "U+0B6F", "U+0BEF", "U+0C6F", "U+0CEF", "U+0D6F", "U+0DEF",
       "U+0E59", "U+0ED9", "U+0F29", "U+1049", "U+1099", "U+17E9", "U+1819",
       "U+194F", "U+19D9", "U+1A89", "U+1A99", "U+1B59", "U+1BB9", "U+1C49",
       "U+1C59", "U+A629", "U+A8D9", "U+A909", "U+A9D9", "U+A9F9", "U+AA59",
       "U+ABF9", "U+FF19", "U+104A9", "U+10D39", "U+1106F", "U+110F9",
       "U+1113F", "U+111D9", "U+112F9", "U+11459", "U+114D9", "U+11659",
       "U+116C9", "U+11739", "U+118E9", "U+11959", "U+11C59", "U+11D59",
       "U+11DA9", "U+16A69", "U+16AC9", "U+16B59", "U+1D7D7", "U+1D7E1",
       "U+1D7EB", "U+1D7F5", "U+1D7FF", "U+1E149", "U+1E2F9", "U+1E959",
       "U+1FBF9"}>>

IsFloatDigit(c) == \E d \in 1..10 : c \in FloatDigits[d]

DigitVal(c) == (CHOOSE d \in 1..10 : c \in FloatDigits[d]) - 1

\* datetime.strftime("%Y-%m-%d"): the year in decimal without padding (the
\* C library leaves a year below 1000 at three digits or fewer), then the
\* zero-padded month and day
strftime_Ymd(v) ==
    LET y == v.n \div 10000
        m == (v.n \div 100) % 100
        d == v.n % 100
        D(k) == DigitChars[k + 1]
        y4 == <<D(y \div 1000), D((y \div 100) % 10), D((y \div 10) % 10),
                D(y % 10)>>
        first == IF y >= 1000 THEN 1 ELSE IF y >= 100 THEN 2
                 ELSE IF y >= 10 THEN 3 ELSE 4
    IN  PyStr(SubSeq(y4, first, 4) \o
              <<"-", D(m \div 10), D(m % 10), "-", D(d \div 10), D(d % 10)>>)

\* str.replace(",", "")
replace_commas(chars) == SelectSeq(chars, LAMBDA c : c # ",")

RECURSIVE DigitsToInt(_, _)
DigitsToInt(chars, acc) ==
    IF chars = <<>> THEN acc
    ELSE DigitsToInt(Tail(chars), acc * 10 + DigitVal(Head(chars)))

RECURSIVE NormFloat(_, _)
NormFloat(m, d) ==
    IF d > 0 /\ m % 10 = 0 THEN NormFloat(m \div 10, d - 1) ELSE PyFloat(m, d)

\* A character that is not printable ASCII is written by its code point,
\* "U+00A0".  The characters float() drops at both ends of a string:
WhiteSpace ==
    {"\t", "\n", "U+000B", "\f", "\r", " ", "U+0085", "U+00A0", "U+1680",
     "U+2000", "U+2001", "U+2002", "U+2003", "U+2004", "U+2005", "U+2006",
     "U+2007", "U+2008", "U+2009", "U+200A", "U+2028", "U+2029", "U+202F",
     "U+205F", "U+3000"}

RECURSIVE lstrip(_)
lstrip(chars) ==
    IF chars # <<>> /\ Head(chars) \in WhiteSpace THEN lstrip(Tail(chars))
    ELSE chars

RECURSIVE rstrip(_)
rstrip(chars) ==
    IF chars # <<>> /\ chars[Len(chars)] \in WhiteSpace
    THEN rstrip(SubSeq(chars, 1, Len(chars) - 1))
    ELSE chars

\* the letters of "infinity", "nan" and the exponent mark, in lower case
ToLower(c) ==
    CASE c = "I" -> "i" [] c = "N" -> "n" [] c = "F" -> "f" [] c = "T" -> "t"
      [] c = "Y" -> "y" [] c = "A" -> "a" [] c = "E" -> "e" [] OTHER -> c

\* digits, with single underscores allowed between two digits
IsDigitPart(p) ==
    /\ p # <<>>
    /\ \A i \in 1..Len(p) :
          \/ IsFloatDigit(p[i])
          \/ /\ p[i] = "_"
             /\ 1 < i /\ i < Len(p)
             /\ IsFloatDigit(p[i - 1]) /\ IsFloatDigit(p[i + 1])

Digits(p) == SelectSeq(p, IsFloatDigit)

RECURSIVE Pow10(_)
Pow10(k) == IF k = 0 THEN 1 ELSE 10 * Pow10(k - 1)

Count(seq, c) == Cardinality({i \in 1..Len(seq) : seq[i] = c})

\* index of the first c in seq, Len(seq) + 1 when there is none
IndexOf(seq, c) ==
    IF \E i \in 1..Len(seq) : seq[i] = c
    THEN CHOOSE i \in 1..Len(seq) :
            seq[i] = c /\ \A j \in 1..(i - 1) : seq[j] # c
    ELSE Len(seq) + 1

Before(seq, c) == SubSeq(seq, 1, IndexOf(seq, c) - 1)
After(seq, c) == SubSeq(seq, IndexOf(seq, c) + 1, Len(seq))

HasSign(seq) == seq # <<>> /\ Head(seq) \in {"+", "-"}
IsNegative(seq) == seq # <<>> /\ Head(seq) = "-"
Unsigned(seq) == IF HasSign(seq) THEN Tail(seq) ELSE seq

\* mantissa: digits with an optional "." and digits on either side of it
mantissa_ok(mant) ==
    /\ Count(mant, ".") <= 1
    /\ Before(mant, ".") = <<>> \/ IsDigitPart(Before(mant, "."))
    /\ After(mant, ".") = <<>> \/ IsDigitPart(After(mant, "."))
    /\ Before(mant, ".") # <<>> \/ After(mant, ".") # <<>>

\* the signed value of the text after the exponent mark, 0 without one
exponent_val(expo) ==
    IF expo = <<>> THEN 0
    ELSE IF IsNegative(expo) THEN 0 - DigitsToInt(Digits(expo), 0)
    ELSE DigitsToInt(Digits(expo), 0)

\* the float of a well-formed mantissa and exponent, exact in decimal
decimal_value(neg, mant, expo) ==
    LET mag == DigitsToInt(Digits(mant), 0)
        net == exponent_val(expo) - Len(Digits(After(mant, ".")))
    IN  IF mag = 0 THEN PyFloat(0, 0)
        ELSE IF net >= 0 THEN PyFloat((IF neg THEN 0 - mag ELSE mag) * Pow10(net), 0)
        ELSE NormFloat(IF neg THEN 0 - mag ELSE mag, 0 - net)

\* the float of a mantissa and the text after the exponent mark; has_exp
\* says whether there is a mark
float_decimal(neg, mant, expo, has_exp) ==
    IF /\ has_exp => IsDigitPart(Unsigned(expo))
       /\ mantissa_ok(mant)
    THEN [ok |-> TRUE, v |-> decimal_value(neg, mant, expo)]
    ELSE [ok |-> FALSE, v |-> PyNone]

\* the unsigned, lower-case text of a float literal.  The set
\* constructors bind each part of the text once, as a value.
float_body(neg, body) ==
    IF body \in {<<"i", "n", "f">>, <<"i", "n", "f", "i", "n", "i", "t", "y">>}
    THEN [ok |-> TRUE, v |-> PyInf(neg)]
    ELSE IF body = <<"n", "a", "n">> THEN [ok |-> TRUE, v |-> PyNan]
    ELSE IF Count(body, "e") > 1 THEN [ok |-> FALSE, v |-> PyNone]
    ELSE CHOOSE r \in {float_decimal(neg, mant, expo, Count(body, "e") = 1) :
                          mant \in {Before(body, "e")},
                          expo \in {After(body, "e")}} : TRUE

float_signed(stripped) ==
    CHOOSE r \in {float_body(IsNegative(stripped), body) :
                     body \in {[i \in 1..Len(Unsigned(stripped)) |->
                                  ToLower(Unsigned(stripped)[i])]}} : TRUE

\* float(chars) (line 91): surrounding whitespace is dropped; then an
\* optional sign and either inf, infinity or nan in any case, or a decimal
\* number with an optional fraction and an optional exponent, underscores
\* allowed between digits.  ok = FALSE is ValueError.  The value is exact
\* in decimal: numbers of more digits than a double or a model integer
\* holds are outside the inputs of the model.
py_float(chars) ==
    CHOOSE r \in {float_signed(stripped) :
                     stripped \in {rstrip(lstrip(chars))}} : TRUE

\* clean_value(value, column_type); column_type "None" is the default None
clean_value(value, column_type) ==
    IF value.t = "None" \/ EqStr(value, <<>>) THEN PyNone
    ELSE IF column_type = "boolean" THEN
        IF EqStr(value, <<"Y", "e", "s">>) THEN PyBool(TRUE)
        ELSE IF EqStr(value, <<"N", "o">>) THEN PyBool(FALSE)
        ELSE PyNone
    ELSE IF column_type = "date" /\ value.t = "datetime" THEN strftime_Ymd(value)
    ELSE IF column_type = "date" /\ (EqStr(value, <<"-">>) \/ ~Truthy(value))
        THEN PyNone
    ELSE IF column_type = "numeric" THEN
        IF value.t \in {"int", "float", "bool"} THEN value
        ELSE IF value.t = "str" THEN
            LET r == py_float(replace_commas(value.s))
            IN  IF r.ok THEN r.v ELSE PyNone
        ELSE PyNone
    ELSE value

----------------------------------------------------------------------------
(* The static tables.                                                      *)

column_mapping ==
       ("Year" :> "year")
    @@ ("Budget" :> "budget")
    @@ ("Reference of the Legal Commitment (LC)" :> "reference_legal_commitment")
    @@ ("Reference (Budget)" :> "reference_budget")
    @@ ("Name of beneficiary" :> "beneficiary_name")
    @@ ("VAT number of beneficiary" :> "beneficiary_vat")
    @@ ("Not-for-profit organisation (NFPO)" :> "not_for_profit")
    @@ ("Non-governmental organisation (NGO)" :> "non_governmental")
    @@ ("Coordinator" :> "coordinator")
    @@ ("Address" :> "address")
    @@ ("City" :> "city")
    @@ ("Postal code" :> "postal_code")
    @@ ("Beneficiary country" :> "beneficiary_country")
    @@ ("NUTS2" :> "nuts2")
    @@ ("Geographical Zone" :> "geographical_zone")
    @@ ("Action location" :> "action_location")
    @@ ("Beneficiary's contracted amount (EUR)" :> "beneficiary_contracted_amount")
    @@ ("Beneficiary's estimated contracted amount (EUR)" :> "beneficiary_estimated_contracted_amount")
    @@ ("Beneficiary's estimated consumed amount (EUR)" :> "beneficiary_estimated_consumed_amount")
    @@ ("Commitment contracted amount (EUR) (A)" :> "commitment_contracted_amount")
    @@ ("Additional/Reduced amount (EUR) (B)" :> "additional_reduced_amount")
    @@ ("Commitment  total amount (EUR) (A+B)" :> "commitment_total_amount")
    @@ ("Commitment consumed amount (EUR)" :> "commitment_consumed_amount")
    @@ ("Source of (estimated) detailed amount" :> "source_estimated_detailed_amount")
    @@ ("Expense type" :> "expense_type")
    @@ ("Subject of grant or contract" :> "subject_grant_contract")
    @@ ("Responsible department" :> "responsible_department")
    @@ ("Budget line number" :> "budget_line_number")
    @@ ("Budget line name" :> "budget_line_name")
    @@ ("Programme name" :> "programme_name")
    @@ ("Funding type" :> "funding_type")
    @@ ("Beneficiary Group Code" :> "beneficiary_group_code")
    @@ ("Beneficiary type" :> "beneficiary_type")
    @@ ("Project start date" :> "project_start_date")
    @@ ("Project end date" :> "project_end_date")
    @@ ("Type of contract*" :> "type_of_contract")
    @@ ("Management type" :> "management_type")
    @@ ("Benefiting country" :> "benefiting_country")

column_types ==
       ("Not-for-profit organisation (NFPO)" :> "boolean")
    @@ ("Non-governmental organisation (NGO)" :> "boolean")
    @@ ("Coordinator" :> "boolean")
    @@ ("Project start date" :> "date")
    @@ ("Project end date" :> "date")
    @@ ("Beneficiary's contracted amount (EUR)" :> "numeric")
    @@ ("Beneficiary's estimated contracted amount (EUR)" :> "numeric")
    @@ ("Beneficiary's estimated consumed amount (EUR)" :> "numeric")
    @@ ("Commitment contracted amount (EUR) (A)" :> "numeric")
    @@ ("Additional/Reduced amount (EUR) (B)" :> "numeric")
    @@ ("Commitment  total amount (EUR) (A+B)" :> "numeric")
    @@ ("Commitment consumed amount (EUR)" :> "numeric")

----------------------------------------------------------------------------
(* process_excel_data.  A sheet is the active worksheet of a workbook:     *)
(* blank (iter_rows yields nothing), or a header row of strings followed   *)
(* by data rows that have one cell per header.                             *)

NoBatch == [db_columns |-> <<>>, rows |-> <<>>]

\* keys of excel_to_db_columns in insertion order (lines 183-186)
mapped_idx(header) ==
    SelectSeq([i \in 1..Len(header) |-> i],
              LAMBDA i : header[i] \in DOMAIN column_mapping)

\* db_columns (lines 181-186)
db_columns(header) ==
    LET idx == mapped_idx(header)
    IN  [i \in 1..Len(idx) |-> column_mapping[header[idx[i]]]]

\* excel_column_types.get(idx) (lines 189-192, 210)
excel_column_types(header, idx) ==
    IF header[idx] \in DOMAIN column_types THEN column_types[header[idx]]
    ELSE "None"

\* row_values reading the cell by its place in db_columns, not by the
\* column index of its header
row_values_M(header, row) ==
    LET idx == mapped_idx(header)
    IN  [i \in 1..Len(idx) |->
            clean_value(row[i], excel_column_types(header, idx[i]))]

\* the tuple appended for one data row (lines 207-214)
row_values(header, row) ==
    LET idx == mapped_idx(header)
    IN  [i \in 1..Len(idx) |->
            clean_value(row[idx[i]], excel_column_types(header, idx[i]))]

\* The generator: st is where it stands, pos the next data row to read.
NoGen == [st |-> "none", pos |-> 0]
NewGen == [st |-> "unstarted", pos |-> 1]

\* row_loop yielding only once the batch is larger than batch_size
RECURSIVE row_loop_M(_, _, _, _)
row_loop_M(sheet, pos, rows, B) ==
    IF pos > Len(sheet.data) THEN
        IF rows # <<>>
        THEN [kind |-> "yield",
              batch |-> [db_columns |-> db_columns(sheet.header), rows |-> rows],
              gen |-> [st |-> "yield_224", pos |-> pos], wb |-> "open"]
        ELSE [kind |-> "stop", batch |-> NoBatch,
              gen |-> [st |-> "finished", pos |-> pos], wb |-> "closed"]
    ELSE LET rows2 == Append(rows, row_values(sheet.header, sheet.data[pos]))
         IN  IF Len(rows2) > B
             THEN [kind |-> "yield",
                   batch |-> [db_columns |-> db_columns(sheet.header),
                              rows |-> rows2],
                   gen |-> [st |-> "yield_219", pos |-> pos + 1], wb |-> "open"]
             ELSE row_loop_M(sheet, pos + 1, rows2, B)

\* the loop over ws.iter_rows() from data row pos with the rows collected so
\* far, up to the next yield or the end of the function (lines 202-226)
RECURSIVE row_loop(_, _, _, _)
row_loop(sheet, pos, rows, B) ==
    IF pos > Len(sheet.data) THEN
        IF rows # <<>>
        THEN [kind |-> "yield",
              batch |-> [db_columns |-> db_columns(sheet.header), rows |-> rows],
              gen |-> [st |-> "yield_224", pos |-> pos], wb |-> "open"]
        ELSE [kind |-> "stop", batch |-> NoBatch,
              gen |-> [st |-> "finished", pos |-> pos], wb |-> "closed"]
    ELSE LET rows2 == Append(rows, row_values(sheet.header, sheet.data[pos]))
         IN  IF Len(rows2) >= B
             THEN [kind |-> "yield",
                   batch |-> [db_columns |-> db_columns(sheet.header),
                              rows |-> rows2],
                   gen |-> [st |-> "yield_219", pos |-> pos + 1], wb |-> "open"]
             ELSE row_loop(sheet, pos + 1, rows2, B)

\* next(generator): run process_excel_data from where it stands to its next
\* yield, its end, or an exception.  wb is the state of the workbook after.
gen_next(sheet, g, B) ==
    CASE g.st = "unstarted" ->
            IF sheet.blank
            THEN \* next(ws.iter_rows()) raises StopIteration (line 169)
                 [kind |-> "raise", batch |-> NoBatch,
                  gen |-> [st |-> "raised", pos |-> 0], wb |-> "open"]
            ELSE row_loop(sheet, 1, <<>>, B)
      [] g.st = "yield_219" -> row_loop(sheet, g.pos, <<>>, B)
      [] g.st = "yield_224" ->
            [kind |-> "stop", batch |-> NoBatch,
             gen |-> [st |-> "finished", pos |-> g.pos], wb |-> "closed"]

\* list(process_excel_data(file_path, year)): every batch in order of
\* production, whether the generator raised, and the workbook at the end
RECURSIVE drain(_, _, _, _)
drain(sheet, g, B, acc) ==
    LET r == gen_next(sheet, g, B)
    IN  IF r.kind = "yield" THEN drain(sheet, r.gen, B, Append(acc, r.batch))
        ELSE [batches |-> acc, raised |-> r.kind = "raise", wb |-> r.wb]

process_excel_data(sheet, B) == drain(sheet, NewGen, B, <<>>)

----------------------------------------------------------------------------
(* The environment of main: the years, the downloads, the database.        *)

\* range(2007, current_year + 1) (line 305)
FirstYear == 2007
current_year == FirstYear + MaxYears - 1
Years == FirstYear..current_year

\* Workbooks the portal may serve.  SheetE2E is the three-row fixture of the
\* end-to-end scenario; SheetOne has a header that is not in the mapping.
SheetBlank == [blank |-> TRUE, header |-> <<>>, data |-> <<>>]

SheetE2E ==
    [blank |-> FALSE,
     header |-> <<"Year", "Coordinator", "Commitment consumed amount (EUR)",
                  "Project start date">>,
     data |-> <<
        <<PyInt(2020), PyStr(<<"Y", "e", "s">>),
          PyStr(<<"1", ",", "0", "0", "0", ".", "0", "0">>),
          PyDatetime(2020, 1, 15, 0)>>,
        <<PyInt(2020), PyStr(<<"N", "o">>), PyStr(<<>>), PyStr(<<"-">>)>>,
        <<PyInt(2020), PyStr(<<>>), PyStr(<<"5", "0", "0">>), PyNone>> >>]

SheetOne ==
    [blank |-> FALSE,
     header |-> <<"Year", "Internal note", "Name of beneficiary">>,
     data |-> << <<PyInt(2021), PyStr(<<"x">>), PyStr(<<"a", "b", "c">>)>> >>]

MainSheets == {SheetBlank, SheetE2E, SheetOne}

NoResponse == [status_code |-> 0, content |-> SheetBlank]
NoFile == [exists |-> FALSE, content |-> SheetBlank]

NoHist == [gets |-> 0, status_code |-> 0, content |-> SheetBlank,
           fault |-> "none", raised |-> FALSE, over |-> FALSE]

\* psycopg2.extras._paginate: the number of pages of a batch
num_pages(rows, P) == (Len(rows) + P - 1) \div P

\* the rows of the first k pages
first_pages(rows, P, k) ==
    SubSeq(rows, 1, IF k * P < Len(rows) THEN k * P ELSE Len(rows))

Tagged(y, rows) == [i \in 1..Len(rows) |-> [year |-> y, row |-> rows[i]]]

\* the rows of a pending list that came from the file of year y, in order
RowsOf(y, pend) ==
    LET mine == SelectSeq(pend, LAMBDA p : p.year = y)
    IN  [i \in 1..Len(mine) |-> mine[i].row]

----------------------------------------------------------------------------
(* main(), one action per step.                                            *)

Init ==
    /\ pc = "connect"
    /\ env_ok \in BOOLEAN
    /\ batch_size = MaxBatchSize
    /\ page_size = MaxPageSize
    /\ conn = "unbound"
    /\ txn = "idle"
    /\ pending = <<>>
    /\ table = [y \in Years |-> <<>>]
    /\ year = 0
    /\ response = NoResponse
    /\ tmpfiles = [y \in Years |-> NoFile]
    /\ gen = NoGen
    /\ wb = [y \in Years |-> "unopened"]
    /\ batch = NoBatch
    /\ attempted = <<>>
    /\ hist = [y \in Years |-> NoHist]
    /\ run = [create_table |-> 0, close |-> 0, startup |-> "pending"]
    /\ fn = [op |-> "none"]

\* conn = connect_to_database() (lines 298, 258-275): ValueError when a
\* credential is missing, else psycopg2.connect returns a session or raises
connect_to_database ==
    /\ pc = "connect"
    /\ IF ~env_ok
       THEN /\ run' = [run EXCEPT !.startup = "no_credentials"]
            /\ pc' = "outer_except"
            /\ UNCHANGED conn
       ELSE \/ /\ conn' = "open"
               /\ pc' = "create_table"
               /\ UNCHANGED run
            \/ /\ run' = [run EXCEPT !.startup = "connect_failed"]
               /\ pc' = "outer_except"
               /\ UNCHANGED conn
    /\ UNCHANGED <<env_ok, batch_size, page_size, txn, pending, table, year,
                   response, tmpfiles, gen, wb, batch, attempted, hist, fn>>

\* create_table whose failure is swallowed: the loop starts all the same
create_table_M ==
    /\ pc = "create_table"
    /\ \/ /\ run' = [run EXCEPT !.create_table = @ + 1, !.startup = "ok"]
          /\ txn' = "idle"
       \/ /\ run' = [run EXCEPT !.create_table = @ + 1,
                                !.startup = "create_table_failed"]
          /\ txn' = "failed"
    /\ pc' = "loop"
    /\ UNCHANGED <<env_ok, batch_size, page_size, conn, pending, table, year,
                   response, tmpfiles, gen, wb, batch, attempted, hist, fn>>

\* create_table(conn) (lines 301, 11-62): execute and commit, or raise
create_table ==
    /\ pc = "create_table"
    /\ \/ /\ run' = [run EXCEPT !.create_table = @ + 1, !.startup = "ok"]
          /\ txn' = "idle"
          /\ pc' = "loop"
       \/ /\ run' = [run EXCEPT !.create_table = @ + 1,
                                !.startup = "create_table_failed"]
          /\ txn' = "failed"
          /\ pc' = "outer_except"
    /\ UNCHANGED <<env_ok, batch_size, page_size, conn, pending, table, year,
                   response, tmpfiles, gen, wb, batch, attempted, hist, fn>>

\* for year in range(2007, current_year + 1) (line 305); when the range is
\* exhausted the TemporaryDirectory is left and its files are removed
loop_next ==
    /\ pc = "loop"
    /\ LET nxt == IF year = 0 THEN FirstYear ELSE year + 1
       IN  IF nxt <= current_year
           THEN /\ year' = nxt
                /\ attempted' = Append(attempted, nxt)
                /\ pc' = "get"
                /\ UNCHANGED tmpfiles
           ELSE /\ pc' = "finally"
                /\ tmpfiles' = [y \in Years |-> NoFile]
                /\ UNCHANGED <<year, attempted>>
    /\ UNCHANGED <<env_ok, batch_size, page_size, conn, txn, pending, table,
                   response, gen, wb, batch, hist, run, fn>>

\* get without the test of status_code: whatever came back is saved and loaded
get_M ==
    /\ pc = "get"
    /\ \/ /\ hist' = [hist EXCEPT ![year].gets = @ + 1,
                                  ![year].fault = "get_raises"]
          /\ pc' = "year_except"
          /\ UNCHANGED response
       \/ \E sheet \in MainSheets :
             /\ response' = [status_code |-> 200, content |-> sheet]
             /\ hist' = [hist EXCEPT ![year].gets = @ + 1,
                                     ![year].status_code = 200,
                                     ![year].content = sheet]
             /\ pc' = "write"
       \/ \E sheet \in MainSheets :
             /\ response' = [status_code |-> 404, content |-> sheet]
             /\ hist' = [hist EXCEPT ![year].gets = @ + 1,
                                     ![year].status_code = 404,
                                     ![year].content = sheet]
             /\ pc' = "write"
    /\ UNCHANGED <<env_ok, batch_size, page_size, conn, txn, pending, table,
                   year, tmpfiles, gen, wb, batch, attempted, run, fn>>

\* response = requests.get(url, headers=headers) and the test of its
\* status_code (lines 310-312, 328-331)
get ==
    /\ pc = "get"
    /\ \/ \* requests.get raises
          /\ hist' = [hist EXCEPT ![year].gets = @ + 1,
                                  ![year].fault = "get_raises"]
          /\ pc' = "year_except"
          /\ UNCHANGED response
       \/ \* status 200 with a workbook as content
          \E sheet \in MainSheets :
             /\ response' = [status_code |-> 200, content |-> sheet]
             /\ hist' = [hist EXCEPT ![year].gets = @ + 1,
                                     ![year].status_code = 200,
                                     ![year].content = sheet]
             /\ pc' = "write"
       \/ \* any other status: "Failed to download", next year
          /\ response' = [status_code |-> 404, content |-> SheetBlank]
          /\ hist' = [hist EXCEPT ![year].gets = @ + 1,
                                  ![year].status_code = 404,
                                  ![year].over = TRUE]
          /\ pc' = "loop"
    /\ UNCHANGED <<env_ok, batch_size, page_size, conn, txn, pending, table,
                   year, tmpfiles, gen, wb, batch, attempted, run, fn>>

\* the file is written and insert_data is called, which creates the
\* generator without running it (lines 316-323, 249)
write_file ==
    /\ pc = "write"
    /\ tmpfiles' = [tmpfiles EXCEPT
                       ![year] = [exists |-> TRUE, content |-> response.content]]
    /\ gen' = NewGen
    /\ pc' = "for_next"
    /\ UNCHANGED <<env_ok, batch_size, page_size, conn, txn, pending, table,
                   year, response, wb, batch, attempted, hist, run, fn>>

\* the for statement of insert_data takes the next batch (line 249); at the
\* end of the generator insert_data returns and main goes to the next year
for_next ==
    /\ pc = "for_next"
    /\ LET r == gen_next(tmpfiles[year].content, gen, batch_size)
       IN  /\ gen' = r.gen
           /\ wb' = [wb EXCEPT ![year] = r.wb]
           /\ batch' = r.batch
           /\ CASE r.kind = "yield" -> pc' = "insert_batch" /\ UNCHANGED hist
                [] r.kind = "stop" ->
                      /\ pc' = "loop"
                      /\ hist' = [hist EXCEPT ![year].over = TRUE]
                [] r.kind = "raise" ->
                      /\ pc' = "year_except"
                      /\ hist' = [hist EXCEPT ![year].fault = "transform_raises"]
    /\ UNCHANGED <<env_ok, batch_size, page_size, conn, txn, pending, table,
                   year, response, tmpfiles, attempted, run, fn>>

\* insert_data_batch(conn, db_columns, rows) (lines 229-241).
\* execute_values sends the rows one page at a time in the transaction of
\* the session, then conn.commit() makes durable everything executed in it.
\* A statement on a failed transaction is rejected by the server.  A page
\* can fail in the server, which fails the transaction, or in the client
\* before it is sent, which leaves the transaction as it was.
insert_data_batch ==
    /\ pc = "insert_batch"
    /\ IF txn = "failed"
       THEN /\ pc' = "year_except"
            /\ UNCHANGED <<txn, pending, table, hist>>
       ELSE \/ /\ table' = [y \in Years |->
                              table[y] \o RowsOf(y, pending \o Tagged(year, batch.rows))]
               /\ pending' = <<>>
               /\ txn' = "idle"
               /\ pc' = "for_next"
               /\ UNCHANGED hist
            \/ \E k \in 1..num_pages(batch.rows, page_size) :
               \E fault \in {"server_error", "client_error"} :
                  /\ pending' = pending \o
                        Tagged(year, first_pages(batch.rows, page_size, k - 1))
                  /\ txn' = IF fault = "server_error" THEN "failed"
                            ELSE IF pending' # <<>> THEN "intrans" ELSE txn
                  /\ hist' = [hist EXCEPT ![year].fault = fault]
                  /\ pc' = "year_except"
                  /\ UNCHANGED table
    /\ UNCHANGED <<env_ok, batch_size, page_size, conn, year, response,
                   tmpfiles, gen, wb, batch, attempted, run, fn>>

\* a year's exception that is not caught at the year boundary and reaches
\* the outer handler
year_except_M ==
    /\ pc = "year_except"
    /\ gen' = IF gen.st \in {"yield_219", "yield_224"}
              THEN [gen EXCEPT !.st = "closed"] ELSE gen
    /\ hist' = [hist EXCEPT ![year].raised = TRUE, ![year].over = TRUE]
    /\ pc' = "outer_except"
    /\ UNCHANGED <<env_ok, batch_size, page_size, conn, txn, pending, table,
                   year, response, tmpfiles, wb, batch, attempted, run, fn>>

\* except Exception as e: print (lines 333-334).  The exception and its
\* traceback are dropped, and with them the generator: a generator that
\* stands at a yield is closed there, so line 226 is not reached and the
\* workbook stays open (wb records wb.close(), not what the garbage
\* collector may release at some later time of its choosing).
year_except ==
    /\ pc = "year_except"
    /\ gen' = IF gen.st \in {"yield_219", "yield_224"}
              THEN [gen EXCEPT !.st = "closed"] ELSE gen
    /\ hist' = [hist EXCEPT ![year].raised = TRUE, ![year].over = TRUE]
    /\ pc' = "loop"
    /\ UNCHANGED <<env_ok, batch_size, page_size, conn, txn, pending, table,
                   year, response, tmpfiles, wb, batch, attempted, run, fn>>

\* the outer handler of a main that closes the session at the end of the
\* try body instead of in a finally clause
outer_except_M ==
    /\ pc = "outer_except"
    /\ pc' = "done"
    /\ UNCHANGED <<env_ok, batch_size, page_size, conn, txn, pending, table,
                   year, response, tmpfiles, gen, wb, batch, attempted, hist,
                   run, fn>>

\* except Exception as e: print("Database error") (lines 336-337)
outer_except ==
    /\ pc = "outer_except"
    /\ pc' = "finally"
    /\ UNCHANGED <<env_ok, batch_size, page_size, conn, txn, pending, table,
                   year, response, tmpfiles, gen, wb, batch, attempted, hist,
                   run, fn>>

\* finally: if "conn" in locals() and conn: conn.close() (lines 339-342);
\* closing the session discards what was not committed
finally ==
    /\ pc = "finally"
    /\ IF conn = "open"
       THEN /\ conn' = "closed"
            /\ run' = [run EXCEPT !.close = @ + 1]
            /\ pending' = <<>>
            /\ txn' = "idle"
       ELSE UNCHANGED <<conn, run, pending, txn>>
    /\ pc' = "done"
    /\ UNCHANGED <<env_ok, batch_size, page_size, table, year, response,
                   tmpfiles, gen, wb, batch, attempted, hist, fn>>

Next ==
    \/ connect_to_database
    \/ create_table
    \/ loop_next
    \/ get
    \/ write_file
    \/ for_next
    \/ insert_data_batch
    \/ year_except
    \/ outer_except
    \/ finally

Spec == Init /\ [][Next]_vars

FairSpec == Spec /\ WF_vars(Next)

----------------------------------------------------------------------------
(* FnSpec: clean_value and process_excel_data called on bounded inputs.    *)

ColumnTypes == {"None", "boolean", "date", "numeric"}

\* cell values as openpyxl hands them over
Cells ==
    {PyNone, PyStr(<<>>), PyStr(<<"Y", "e", "s">>), PyStr(<<"N", "o">>),
     PyStr(<<"-">>), PyStr(<<"a", "b", "c">>),
     PyStr(<<"1", ",", "2", "3", "4", ".", "5", "0">>),
     PyStr(<<"5", "0", "0">>), PyStr(<<"-", "1", ".", "5">>),
     PyStr(<<" ", "1", "2", " ">>), PyStr(<<"1", "e", "5">>),
     PyStr(<<"1", "_", "0", "0", "0">>), PyStr(<<"2", ".", "5", "E", "-", "1">>),
     PyStr(<<"-", "I", "n", "f">>),
     PyStr(<<"U+00A0", "U+0661", "U+0662", ".", "U+FF15", "U+000B">>),
     PyStr(<<"U+001F", "1">>),
     PyStr(<<"2", "0", "2", "3", "-", "0", "5", "-", "0", "1">>),
     PyInt(42), PyInt(0), PyFloat(15, 1), PyFloat(0, 0),
     PyBool(TRUE), PyBool(FALSE),
     PyDatetime(2023, 5, 1, 0), PyDatetime(2020, 1, 15, 3600)}

FnHeaders ==
    {<<"Year", "Coordinator", "Commitment consumed amount (EUR)",
       "Project start date">>,
     <<"Internal note", "Year", "Comment", "Project end date">>,
     <<"Coordinator", "Internal note", "Budget">>,
     <<"Internal note">>}

\* three different rows per sheet width
CellCycle ==
    <<PyInt(2020), PyStr(<<"Y", "e", "s">>), PyStr(<<"5", "0", "0">>),
      PyDatetime(2023, 5, 1, 0), PyStr(<<"-">>), PyStr(<<>>),
      PyStr(<<"a", "b", "c">>)>>

FnRow(w, j) == [i \in 1..w |-> CellCycle[((i + 2 * j) % Len(CellCycle)) + 1]]

FnSheets ==
    {SheetBlank} \cup
    UNION {UNION {{[blank |-> FALSE, header |-> h,
                    data |-> [i \in 1..n |-> FnRow(Len(h), pick[i])]] :
                      pick \in [1..n -> 1..3]} :
                 n \in 0..MaxRows} :
           h \in FnHeaders}

\* batch_size as the code sets it (line 196)
DefaultBatchSize == 5000

\* row counts too large for a generated sheet; the row loop is run on them
\* one row a step, with the rows collected so far kept by their number
ExampleRowCounts == {12345}

\* a sheet of n data rows with one mapped column
CountSheet(n) ==
    [blank |-> FALSE, header |-> <<"Year">>,
     data |-> [i \in 1..n |-> <<PyInt(FirstYear + i)>>]]

FnInit ==
    /\ pc = "fn"
    /\ env_ok = FALSE
    /\ batch_size \in (1..MaxBatchSize) \cup {DefaultBatchSize}
    /\ page_size \in 1..MaxPageSize
    /\ conn = "unbound"
    /\ txn = "idle"
    /\ pending = <<>>
    /\ table = [y \in Years |-> <<>>]
    /\ year = 0
    /\ response = NoResponse
    /\ tmpfiles = [y \in Years |-> NoFile]
    /\ gen = NoGen
    /\ wb = [y \in Years |-> "unopened"]
    /\ batch = NoBatch
    /\ attempted = <<>>
    /\ hist = [y \in Years |-> NoHist]
    /\ run = [create_table |-> 0, close |-> 0, startup |-> "pending"]
    /\ fn = [op |-> "none"]

call_clean_value ==
    /\ pc = "fn"
    /\ pc' = "fn_done"
    /\ \E value \in Cells, column_type \in ColumnTypes :
          fn' = [op |-> "clean_value", value |-> value,
                 column_type |-> column_type,
                 result |-> clean_value(value, column_type)]
    /\ UNCHANGED <<env_ok, batch_size, page_size, conn, txn, pending,
                   table, year, response, tmpfiles, gen, wb, batch, attempted,
                   hist, run>>

call_process_excel_data ==
    /\ pc = "fn"
    /\ pc' = "fn_done"
    /\ \E sheet \in FnSheets :
          fn' = [op |-> "process_excel_data", sheet |-> sheet,
                 result |-> process_excel_data(sheet, batch_size)]
    /\ UNCHANGED <<env_ok, batch_size, page_size, conn, txn, pending,
                   table, year, response, tmpfiles, gen, wb, batch, attempted,
                   hist, run>>

\* process_excel_data on a file of n data rows, entered: rows = [] and the
\* loop of line 202 before its first row.  len is len(rows), sizes the
\* lengths of the batches yielded so far.
call_row_loop ==
    /\ pc = "fn"
    /\ pc' = "fn_rows"
    /\ \E n \in (0..MaxRows) \cup
                (IF batch_size = DefaultBatchSize THEN ExampleRowCounts ELSE {}) :
          fn' = [op |-> "row_loop", n |-> n, pos |-> 1, len |-> 0,
                 sizes |-> <<>>]
    /\ UNCHANGED <<env_ok, batch_size, page_size, conn, txn, pending,
                   table, year, response, tmpfiles, gen, wb, batch, attempted,
                   hist, run>>

\* one pass of the loop body (lines 202-220): the row is appended, and a
\* batch that has reached batch_size is yielded and rows emptied
row_loop_step ==
    /\ pc = "fn_rows"
    /\ fn.pos <= fn.n
    /\ fn' = IF fn.len + 1 >= batch_size
             THEN [fn EXCEPT !.pos = @ + 1, !.len = 0,
                             !.sizes = Append(@, fn.len + 1)]
             ELSE [fn EXCEPT !.pos = @ + 1, !.len = @ + 1]
    /\ UNCHANGED <<pc, env_ok, batch_size, page_size, conn, txn, pending,
                   table, year, response, tmpfiles, gen, wb, batch, attempted,
                   hist, run>>

\* the rows are exhausted: the remaining rows, if any, are yielded and the
\* function ends (lines 223-226)
row_loop_end ==
    /\ pc = "fn_rows"
    /\ fn.pos > fn.n
    /\ pc' = "fn_done"
    /\ fn' = IF fn.len > 0
             THEN [fn EXCEPT !.len = 0, !.sizes = Append(@, fn.len)]
             ELSE fn
    /\ UNCHANGED <<env_ok, batch_size, page_size, conn, txn, pending,
                   table, year, response, tmpfiles, gen, wb, batch, attempted,
                   hist, run>>

FnNext ==
    \/ call_clean_value
    \/ call_process_excel_data
    \/ call_row_loop
    \/ row_loop_step
    \/ row_loop_end

FnSpec == FnInit /\ [][FnNext]_vars

----------------------------------------------------------------------------
(* Properties.                                                             *)

RECURSIVE AllRows(_)
AllRows(batches) ==
    IF batches = <<>> THEN <<>>
    ELSE Head(batches).rows \o AllRows(Tail(batches))

\* what process_excel_data yields for the file received for year y
BatchesOfYear(y) == process_excel_data(hist[y].content, batch_size).batches

\* C1: if an insert of year N failed in the server, which leaves the session
\* in a failed transaction, then every later year M whose download returned
\* 200 and that met no fault of its own ends with all the rows of its file
\* committed.
C1_LaterYearsLoaded ==
    \A N \in Years, M \in Years :
        (/\ N < M
         /\ hist[N].fault = "server_error"
         /\ hist[M].status_code = 200
         /\ hist[M].fault = "none"
         /\ hist[M].over)
        => table[M] = AllRows(BatchesOfYear(M))

\* C2: the years attempted are always 2007, 2008, ... in ascending order
\* without gap or repetition, and once the loop is entered main reaches its
\* end with every year up to the current one attempted.
C2_EveryYearAttempted ==
    /\ [](\A i \in 1..Len(attempted) : attempted[i] = FirstYear + i - 1)
    /\ (pc = "loop") ~> (pc = "done" /\ Len(attempted) = MaxYears)

C2_Witness ==
    /\ pc = "done"
    /\ Len(attempted) = MaxYears
    /\ hist[FirstYear].raised
    /\ hist[FirstYear].fault \in {"get_raises", "transform_raises",
                                  "server_error", "client_error"}
    /\ \E y \in Years : hist[y].status_code = 404

\* C3: in every state the rows committed for a year's file are the rows of
\* the first k batches of that file, in order, for some k.
C3_CommittedIsBatchPrefix ==
    \A y \in Years :
        \E k \in 0..Len(BatchesOfYear(y)) :
            table[y] = AllRows(SubSeq(BatchesOfYear(y), 1, k))

\* the lengths of a sequence of batches
Sizes(batches) == [i \in 1..Len(batches) |-> Len(batches[i].rows)]

RECURSIVE Sum(_)
Sum(q) == IF q = <<>> THEN 0 ELSE Head(q) + Sum(Tail(q))

\* sizes are the lengths of ceil(n/B) batches, all of B rows but the last,
\* which has 1..B rows
CeilSizes(sizes, n, B) ==
    /\ Len(sizes) = (n + B - 1) \div B
    /\ \A i \in 1..Len(sizes) : /\ i < Len(sizes) => sizes[i] = B
                                /\ sizes[i] \in 1..B

\* The general part of C4.  Of a call of process_excel_data: the batches
\* have these sizes and concatenated are the n normalized rows in file
\* order.  Of a finished run of the row loop: the sizes are these, they add
\* up to n, and for a file small enough to be generated they are the sizes
\* of the batches process_excel_data yields.
BatchingRule ==
    /\ fn.op = "process_excel_data" =>
          LET n == Len(fn.sheet.data)
              bs == fn.result.batches
          IN  /\ CeilSizes(Sizes(bs), n, batch_size)
              /\ AllRows(bs) = [i \in 1..n |->
                                  row_values(fn.sheet.header, fn.sheet.data[i])]
    /\ (fn.op = "row_loop" /\ pc = "fn_done") =>
          /\ CeilSizes(fn.sizes, fn.n, batch_size)
          /\ Sum(fn.sizes) = fn.n
          /\ fn.n <= MaxRows =>
                fn.sizes =
                    Sizes(process_excel_data(CountSheet(fn.n), batch_size).batches)

\* the file of the example: 12345 data rows with batch_size 5000
ExampleDone ==
    /\ fn.op = "row_loop"
    /\ pc = "fn_done"
    /\ fn.n \in ExampleRowCounts
    /\ batch_size = DefaultBatchSize

\* C4 as stated: n data rows and batch size B give ceil(n/B) batches, all of
\* B rows but the last, which has 1..B rows, and the batches concatenated
\* are the n normalized rows in file order; 12345 rows with B = 5000 give
\* batches of 5000, 5000 and 3345 rows.
C4_AsStated ==
    /\ BatchingRule
    /\ ExampleDone => fn.sizes = <<5000, 5000, 3345>>

\* C4: n data rows and batch size B give ceil(n/B) batches, all of B rows
\* but the last, which has 1..B rows, and the batches concatenated are the n
\* normalized rows in file order; 12345 rows with B = 5000 give batches of
\* 5000, 5000 and 2345 rows.
C4_Batching ==
    /\ BatchingRule
    /\ ExampleDone => fn.sizes = <<5000, 5000, 2345>>

\* a file whose last batch is short of a batch_size above 1, after full ones
C4_Witness ==
    /\ fn.op = "process_excel_data"
    /\ batch_size = 2
    /\ Sizes(fn.result.batches) = <<2, 2, 1>>
    /\ \A i \in 1..(Len(fn.sheet.data) - 1) :
          fn.sheet.data[i] # fn.sheet.data[i + 1]
    /\ Len(fn.result.batches[1].db_columns) > 1
    /\ fn.result.wb = "closed"

\* C5: the session is closed at most once; when main has ended it was
\* closed exactly once if connect_to_database returned it and never if it
\* did not; and nothing runs on a closed session.
C5_SessionClosedOnce ==
    /\ run.close <= 1
    /\ (conn = "closed") <=> (run.close = 1)
    /\ conn = "closed" => pc = "done"
    /\ pc = "done" => conn # "open"
    /\ pc \in {"create_table", "for_next", "insert_batch"} => conn = "open"

C5_Witness ==
    /\ pc = "done"
    /\ conn = "closed"
    /\ run.close = 1
    /\ \E y \in Years : hist[y].raised

\* C6: every year is fetched once at most, and once when its iteration is
\* over; a year whose GET raised or returned another status than 200 has no
\* file, no workbook and no committed row, and no step of its iteration
\* touches the table, the transaction or the generator.
C6_FailedFetchLoadsNothing ==
    /\ [](\A y \in Years :
            /\ hist[y].gets <= 1
            /\ hist[y].over => hist[y].gets = 1
            /\ hist[y].status_code # 200 =>
                  /\ ~tmpfiles[y].exists
                  /\ wb[y] = "unopened"
                  /\ table[y] = <<>>)
    /\ [][(year \in Years /\ year' = year /\ hist'[year].status_code # 200)
            => (/\ table' = table
                /\ Len(pending') <= Len(pending)
                /\ gen' = gen)]_vars

C6_Witness ==
    /\ pc = "done"
    /\ \E y \in Years, z \in Years :
          /\ y < z
          /\ table[y] # <<>>
          /\ hist[z].status_code = 404
          /\ hist[z].gets = 1

\* C7: create_table runs at most once and only on an established session;
\* no year is fetched before it has succeeded; a run whose credentials are
\* missing, whose connection fails or whose create_table raises fetches no
\* year and inserts nothing.
C7_StartupOrder ==
    /\ run.create_table <= 1
    /\ run.create_table = 1 => conn # "unbound"
    /\ run.startup = "ok" => run.create_table = 1
    /\ ~env_ok => run.create_table = 0 /\ conn = "unbound"
    /\ pc = "done" => run.startup # "pending"
    /\ run.startup # "ok" =>
          /\ attempted = <<>>
          /\ \A y \in Years : hist[y].gets = 0 /\ table[y] = <<>>
          /\ pending = <<>>
    /\ run.startup = "connect_failed" => run.create_table = 0

C7_Witness ==
    /\ pc = "done"
    /\ run.create_table = 1
    /\ run.startup = "create_table_failed"
    /\ conn = "closed"
    /\ attempted = <<>>

RECURSIVE ExpectedColumns(_)
ExpectedColumns(header) ==
    IF header = <<>> THEN <<>>
    ELSE (IF Head(header) \in DOMAIN column_mapping
          THEN <<column_mapping[Head(header)]>> ELSE <<>>)
         \o ExpectedColumns(Tail(header))

\* the header index of the i-th mapped header
NthMapped(header, i) ==
    CHOOSE j \in 1..Len(header) :
        /\ header[j] \in DOMAIN column_mapping
        /\ Cardinality({k \in 1..(j - 1) : header[k] \in DOMAIN column_mapping})
              = i - 1

TypeOfHeader(h) == IF h \in DOMAIN column_types THEN column_types[h] ELSE "None"

Without(seq, j) == SubSeq(seq, 1, j - 1) \o SubSeq(seq, j + 1, Len(seq))

WithoutColumn(sheet, j) ==
    [blank |-> sheet.blank, header |-> Without(sheet.header, j),
     data |-> [r \in 1..Len(sheet.data) |-> Without(sheet.data[r], j)]]

\* C8: every batch of a file carries the same column list, the destination
\* names of the mapped headers in header order; every row has one value per
\* listed column, the cleaned cell of that column; and the output is the
\* same with an unmapped column taken out of the file.
C8_ColumnList ==
    (fn.op = "process_excel_data" /\ ~fn.sheet.blank) =>
        LET h == fn.sheet.header
            bs == fn.result.batches
            cols == ExpectedColumns(h)
            flat == AllRows(bs)
        IN  /\ \A b \in 1..Len(bs) : bs[b].db_columns = cols
            /\ Len(flat) = Len(fn.sheet.data)
            /\ \A r \in 1..Len(flat) :
                  /\ Len(flat[r]) = Len(cols)
                  /\ \A i \in 1..Len(cols) :
                        flat[r][i] =
                           clean_value(fn.sheet.data[r][NthMapped(h, i)],
                                       TypeOfHeader(h[NthMapped(h, i)]))
            /\ \A j \in 1..Len(h) :
                  h[j] \notin DOMAIN column_mapping =>
                     process_excel_data(WithoutColumn(fn.sheet, j),
                                        batch_size).batches = bs

C8_Witness ==
    /\ fn.op = "process_excel_data"
    /\ fn.sheet.header = <<"Internal note", "Year", "Comment", "Project end date">>
    /\ Len(fn.result.batches) >= 2
    /\ fn.result.batches[2].db_columns = <<"year", "project_end_date">>

\* a year-month-day string: the year's digits, "-", two digits, "-", two
IsDateString(v) ==
    /\ v.t = "str"
    /\ Len(v.s) \in 7..10
    /\ LET yl == Len(v.s) - 6
       IN  \A i \in 1..Len(v.s) :
              IF i \in {yl + 1, yl + 4} THEN v.s[i] = "-" ELSE IsDigit(v.s[i])

\* C9: on a date column clean_value turns a datetime into its
\* year-month-day string, "-" and every falsy value into None, and anything
\* else into a calendar date or None.
C9_DateCleaning ==
    (fn.op = "clean_value" /\ fn.column_type = "date") =>
        IF fn.value.t = "datetime"
        THEN /\ IsDateString(fn.result)
             /\ LET r == fn.result.s
                    yl == Len(r) - 6
                IN  DigitsToInt(SubSeq(r, 1, yl) \o SubSeq(r, yl + 2, yl + 3)
                                \o SubSeq(r, yl + 5, yl + 6), 0) = fn.value.n
        ELSE IF EqStr(fn.value, <<"-">>) \/ ~Truthy(fn.value)
        THEN fn.result = PyNone
        ELSE fn.result = PyNone \/ IsDateString(fn.result)
                \/ fn.result.t = "datetime"

\* C10: when a year's processing begins, the workbook of every earlier year
\* is no longer open.
C10_WorkbookClosed ==
    \A y \in Years : y < year => wb[y] \in {"unopened", "closed"}

====
